---------------------------- MODULE Spec2Model ----------------------------
(***************************************************************************)
(* db2fs.py: moving Odoo attachments from the database to a filestore.     *)
(*                                                                         *)
(* The script is one sequential process (DocumentMover.run).  Every remote *)
(* call (self.execute) and every SQL statement (cr.execute) is one step of *)
(* the model, so that a run can be observed, or terminated, between any    *)
(* two of them.  The remote server and the SQL store are the environment:  *)
(* their records are the state the script reads and writes.                *)
(*                                                                         *)
(* Strings are modelled by what the code does with them:                   *)
(*  - an attachment name is a sequence of tokens: the literal              *)
(*    "attachment ", decimal digits, the literal " - ", and other text;    *)
(*  - a module version string is the sequence of its dot-separated         *)
(*    numeric components ("8.0.1.3" is <<8, 0, 1, 3>>, "" is <<>>).        *)
(* A payload is a positive number, 0 is the empty field (False / NULL).    *)
(***************************************************************************)
EXTENDS Naturals, Sequences, FiniteSets, TLC

\* ---------------------------------------------------------------- bounds
\* at most this many installed modules vote on the version
MaxModules == 3
\* at most this many qualifying rows in the table of the manual converter
MaxTotal == 2500
\* at most this many runs of the script, one after the other
MaxRuns == 2
\* the remote calls of one run that may raise
MaxFaults == 2

\* ------------------------------------------------------ program constants
ERROR_ODOO_VERSION_NOT_FOUND == 2
ERROR_NO_FILESTORE_PATH == 3
ERROR_FILESTORE_PATH_DOES_NOT_EXIST == 4
ERROR_DOCUMENT_NOT_INSTALLED == 6
ERROR_USER_NOT_ADMIN == 8
ERROR_NO_DNS == 9
\* the exit code of an uncaught Python exception
ERROR_UNCAUGHT == 1
\* batch = 1000 in manual_attachment_conversion
batch == 1000
\* uid of the 'admin' user tested by connect
ADMIN_UID == 1

Min(a, b) == IF a <= b THEN a ELSE b

\* ---------------------------------------------------------------- strings
Digit == <<"0", "1", "2", "3", "4", "5", "6", "7", "8", "9">>

\* '%d' % n
RECURSIVE DecimalOf(_)
DecimalOf(n) ==
    IF n < 10 THEN <<Digit[n + 1]>>
    ELSE DecimalOf(n \div 10) \o <<Digit[(n % 10) + 1]>>

\* s.startswith(p)
startswith(s, p) == Len(p) <= Len(s) /\ SubSeq(s, 1, Len(p)) = p

\* 'attachment %d' % (id, )
attachment_prefix(id) == <<"attachment ">> \o DecimalOf(id)

\* 'attachment %d - %s' % (id, name)
attachment_renamed(id, name) ==
    <<"attachment ">> \o DecimalOf(id) \o <<" - ">> \o name

\* --------------------------------------------------------------- versions
\* get_major_minor = lambda ver: '.'.join(ver.split('.', 2)[0:2])
get_major_minor(ver) == SubSeq(ver, 1, Min(2, Len(ver)))

\* Counter(labels)[label]
CountOf(label, labels) ==
    Cardinality({i \in DOMAIN labels : labels[i] = label})

\* the labels of the lowest count: most_common()[-1]
least_common_first(labels) ==
    {labels[i] : i \in {j \in DOMAIN labels :
        \A k \in DOMAIN labels :
            CountOf(labels[j], labels) <= CountOf(labels[k], labels)}}

\* the labels that Counter(labels).most_common() may put first: those of the
\* highest count.  Among equal counts the order is that of the dictionary,
\* which the program does not control.
most_common_first(labels) ==
    {labels[i] : i \in {j \in DOMAIN labels :
        \A k \in DOMAIN labels :
            CountOf(labels[k], labels) <= CountOf(labels[j], labels)}}

\* LooseVersion.__cmp__: the component lists are compared as Python lists,
\* component by component, a proper prefix being the smaller list.
RECURSIVE list_lt(_, _)
list_lt(a, b) ==
    IF b = <<>> THEN FALSE
    ELSE IF a = <<>> THEN TRUE
    ELSE IF a[1] # b[1] THEN a[1] < b[1]
    ELSE list_lt(Tail(a), Tail(b))

\* version(a) < b
version_lt(a, b) == list_lt(a, b)
\* version(a) >= b
version_ge(a, b) == ~ list_lt(a, b)

\* ------------------------------------------------------------------ state
VARIABLES
    args,             \* the command line: filestore_path, install_document_module,
                      \* manual_attachment_conversion, dsn
    login,            \* the uid the server answers to this user's login
    pc,               \* where the run is
    exit_code,        \* 0 while running or after a normal end
    uid,              \* self.uid
    local,            \* the local variables of the running methods
    modules,          \* remote: latest_version of each installed module
    document_state,   \* remote: state of the 'document' module
    storages,         \* remote: document.storage records, id = index
    directories,      \* remote: document.directory id -> storage_id
    attachments,      \* remote: ir.attachment id -> name, parent_id, db_datas, store
    config_parameter, \* remote: values of the ir_attachment.location records
    ir_attachment,    \* SQL: the committed rows of table ir_attachment
    cr,               \* SQL: the open transaction of this run, or closed
    calls,            \* the remote calls this run has made, in order
    statements,       \* the SQL statements this run has issued, in order
    faults,           \* how many more remote calls may end in a fault
    run_no,           \* 1 for the first run
    at_start,         \* the remote records as they were when this run began
    first_run         \* what the first run did, once a later run has begun

vars == <<args, login, pc, exit_code, uid, local, modules, document_state,
          storages, directories, attachments, config_parameter, ir_attachment,
          cr, calls, statements, faults, run_no, at_start, first_run>>

inputVars == <<args, login, modules, run_no, at_start, first_run>>
remoteVars == <<document_state, storages, directories, attachments,
                config_parameter>>
sqlVars == <<ir_attachment, cr, statements>>

\* --------------------------------------------------------- the environment
\* os.path.isdir(path): the one directory of the connecting host
isdir(path) == path = "/srv/filestore"

DB_STORAGE == [type |-> "db", path |-> ""]
FILESTORE(path) == [type |-> "filestore", path |-> path]

\* self.execute('document.storage', 'search', [('type', '=', t)])
search_storage_type(t) ==
    SelectSeq([i \in DOMAIN storages |-> i], LAMBDA i : storages[i].type = t)

\* a search on the type alone
search_storage_any_path(path) == search_storage_type("filestore")

\* ... 'search', [('type', '=', 'filestore'), ('path', '=', path)]
search_storage_path(path) ==
    SelectSeq([i \in DOMAIN storages |-> i],
              LAMBDA i : storages[i] = FILESTORE(path))

\* ascending ids of a finite set of numbers: the order of a search
RECURSIVE sorted(_)
sorted(S) ==
    IF S = {} THEN <<>>
    ELSE LET m == CHOOSE x \in S : \A y \in S : x <= y
         IN  <<m>> \o sorted(S \ {m})

Range(s) == {s[i] : i \in DOMAIN s}

\* 'ir.attachment', 'search', [('db_datas', '!=', 'False')]:
\* "Only work on those that haven't been converted yet"
search_not_converted == sorted({a \in DOMAIN attachments : attachments[a].db_datas # 0})

\* 'ir.attachment', 'search', []
search_all == sorted(DOMAIN attachments)

\* the server's read of 'datas' under the 'document' module: through the
\* storage of the attachment's directory ("reset attachment to DB storage
\* for reading")
document_read_datas(a) ==
    IF storages[directories[attachments[a].parent_id]].type = "db"
    THEN attachments[a].db_datas
    ELSE attachments[a].store

\* the server's write of vals to one attachment under the 'document' module:
\* the stored columns first, then 'datas' through the storage of the
\* directory ("write attachment -> will save it in filestore")
document_write(rec, storage_type, datas, name) ==
    IF storage_type = "filestore"
    THEN [rec EXCEPT !.name = name, !.db_datas = 0, !.store = datas]
    ELSE [rec EXCEPT !.name = name, !.db_datas = datas]

\* the server's read of 'datas' without the 'document' module (7.0, 8.0):
\* the file when there is one, the column otherwise
location_read_datas(a) ==
    IF attachments[a].store # 0 THEN attachments[a].store
    ELSE attachments[a].db_datas

\* the server's write of 'datas' (7.0, 8.0): to the place the parameter
\* ir_attachment.location names; an empty value is not written
location_write_datas(rec, datas) ==
    IF datas = 0 THEN rec
    ELSE IF config_parameter # <<>> THEN [rec EXCEPT !.store = datas]
    ELSE [rec EXCEPT !.db_datas = datas]

\* one remote call, as the run records it
Call(model, method, ids, fields, datas) ==
    [model |-> model, method |-> method, ids |-> ids, fields |-> fields,
     datas |-> datas]

\* one SQL statement, as the run records it
\* (op, the columns it sets, the ids of its BETWEEN, or 0 and 0)
Statement(op, set, lo, hi) == [op |-> op, set |-> set, lo |-> lo, hi |-> hi]

MutatingMethods == {"write", "create", "button_install", "upgrade_module"}
MutatingStatements == {"UPDATE", "ALTER"}

\* ------------------------------------------------------- the run's locals
NoLocals ==
    [odoo_version |-> <<>>, strategy |-> "", old_storage_id |-> 0,
     new_storage_id |-> 0, attachment_ids |-> <<>>, todo |-> <<>>,
     needs_rename |-> FALSE, total |-> 0, counter |-> 0, dir_id |-> 0,
     data |-> 0, attachment |-> [id |-> 0, name |-> <<>>],
     msg |-> FALSE, status |-> "", parent_id |-> 0, i |-> 0, rows |-> <<>>,
     faulted |-> ""]

Running == pc \notin {"done", "exit", "killed"}

\* sys.exit(code), or an exception nothing catches (code 1)
Exit(code) == pc' = "exit" /\ exit_code' = code

\* the outcomes of one per-attachment remote call: it answers, it raises
\* xmlrpclib.Fault, or it raises another exception (a transport error)
Outcomes == IF faults > 0 THEN {"ok", "fault", "error"} ELSE {"ok"}

\* a test that turns away only a failed login
is_admin_unless_refused(u) == u # 0

\* ---------------------------------------------------------------- connect
\* the test connect makes of the uid the login returned
is_admin(u) == u = ADMIN_UID

connect ==
    /\ pc = "connect"
    /\ uid' = login
    /\ IF ~ is_admin(login)
       THEN Exit(ERROR_USER_NOT_ADMIN)
       ELSE pc' = "get_odoo_version" /\ UNCHANGED exit_code
    /\ UNCHANGED <<inputVars, remoteVars, sqlVars, local, calls, faults>>

\* ------------------------------------------------------- get_odoo_version
\* versions.most_common()[0][0] if versions else None: the values it may take
\* (<<>> stands for None and for the empty label, both of which are falsy)
winning_labels(labels) ==
    IF labels = <<>> THEN {<<>>} ELSE most_common_first(labels)

get_odoo_version ==
    /\ pc = "get_odoo_version"
    /\ calls' = calls \o
          << Call("ir.module.module", "search", {}, {}, 0),
             Call("ir.module.module", "read", {}, {"latest_version"}, 0) >>
    /\ \E odoo_version \in
            winning_labels([i \in DOMAIN modules |-> get_major_minor(modules[i])]) :
          IF odoo_version = <<>>
          THEN Exit(ERROR_ODOO_VERSION_NOT_FOUND) /\ UNCHANGED local
          ELSE /\ local' = [local EXCEPT !.odoo_version = odoo_version]
               /\ pc' = "select_strategy"
               /\ UNCHANGED exit_code
    /\ UNCHANGED <<inputVars, remoteVars, sqlVars, uid, faults>>

\* the branches with > '6.0' for >= '6.0'
strategy_of_above(v) ==
    IF list_lt(<<6, 0>>, v) /\ version_lt(v, <<7, 0>>) THEN "legacy"
    ELSE IF version_ge(v, <<7, 0>>) THEN "modern"
    ELSE "unsupported"

\* ------------------------------------------------------------ run: select
\* the branch run takes on the version label
strategy_of(v) ==
    IF version_ge(v, <<6, 0>>) /\ version_lt(v, <<7, 0>>) THEN "legacy"
    ELSE IF version_ge(v, <<7, 0>>) THEN "modern"
    ELSE "unsupported"

select_strategy ==
    /\ pc = "select_strategy"
    /\ LET s == strategy_of(local.odoo_version)
       IN  /\ local' = [local EXCEPT !.strategy = s]
           /\ IF s = "legacy"
              THEN pc' = "pre_move_checks" /\ UNCHANGED exit_code
              ELSE IF s = "modern"
              THEN pc' = "move_using_config_parameter" /\ UNCHANGED exit_code
              ELSE Exit(ERROR_UNCAUGHT)
    /\ UNCHANGED <<inputVars, remoteVars, sqlVars, uid, calls, faults>>

\* -------------------------------------------------------- pre_move_checks
pre_move_checks ==
    /\ pc = "pre_move_checks"
    /\ IF args.manual_attachment_conversion /\ ~ args.dsn
       THEN Exit(ERROR_NO_DNS)
       ELSE pc' = "check_document_module_is_installed" /\ UNCHANGED exit_code
    /\ UNCHANGED <<inputVars, remoteVars, sqlVars, uid, local, calls, faults>>

ReadDocumentModule ==
    << Call("ir.module.module", "search", {}, {}, 0),
       Call("ir.module.module", "read", {}, {"state"}, 0) >>

check_document_module_is_installed ==
    /\ pc = "check_document_module_is_installed"
    /\ calls' = calls \o ReadDocumentModule
    /\ IF document_state # "installed" /\ ~ args.install_document_module
       THEN Exit(ERROR_DOCUMENT_NOT_INSTALLED)
       ELSE pc' = "install_document_module_if_needed" /\ UNCHANGED exit_code
    /\ UNCHANGED <<inputVars, remoteVars, sqlVars, uid, local, faults>>

\* where pre_move_checks goes on once the module is there
after_install ==
    IF args.manual_attachment_conversion
    THEN "manual_attachment_conversion"
    ELSE "check_filestore_path"

install_document_module_if_needed ==
    /\ pc = "install_document_module_if_needed"
    /\ IF ~ args.install_document_module
       THEN pc' = "check_filestore_path" /\ UNCHANGED calls
       ELSE /\ calls' = calls \o ReadDocumentModule
            /\ pc' = IF document_state = "installed"
                     THEN after_install ELSE "button_install"
    /\ UNCHANGED <<inputVars, remoteVars, sqlVars, uid, local, exit_code, faults>>

button_install ==
    /\ pc = "button_install"
    /\ calls' = calls \o
          << Call("ir.module.module", "search", {}, {}, 0),
             Call("ir.module.module", "button_install", {}, {}, 0) >>
    /\ document_state' = "to install"
    /\ pc' = "upgrade_module"
    /\ UNCHANGED <<inputVars, sqlVars, uid, local, exit_code, faults, storages,
                   directories, attachments, config_parameter>>

upgrade_module ==
    /\ pc = "upgrade_module"
    /\ calls' = calls \o
          << Call("base.module.upgrade", "create", {}, {}, 0),
             Call("base.module.upgrade", "upgrade_module", {}, {}, 0) >>
    /\ document_state' = "installed"
    /\ pc' = after_install
    /\ UNCHANGED <<inputVars, sqlVars, uid, local, exit_code, faults, storages,
                   directories, attachments, config_parameter>>

check_filestore_path ==
    /\ pc = "check_filestore_path"
    /\ IF args.filestore_path = ""
       THEN Exit(ERROR_NO_FILESTORE_PATH)
       ELSE IF ~ isdir(args.filestore_path)
       THEN Exit(ERROR_FILESTORE_PATH_DOES_NOT_EXIST)
       ELSE pc' = "find_storages" /\ UNCHANGED exit_code
    /\ UNCHANGED <<inputVars, remoteVars, sqlVars, uid, local, calls, faults>>

\* -------------------------------------------- move_using_document_storage
\* a remote call of the legacy loop raised (outcome "fault" or "error"):
\* nothing catches it
Uncaught(outcome) ==
    /\ Exit(ERROR_UNCAUGHT)
    /\ faults' = faults - 1
    /\ local' = [local EXCEPT !.faulted = outcome]

find_storages ==
    /\ pc = "find_storages"
    /\ calls' = calls \o
          << Call("document.storage", "search", {}, {}, 0),
             Call("document.storage", "search", {}, {}, 0) >>
    /\ LET fs_storage_ids == search_storage_path(args.filestore_path)
       IN  IF Len(fs_storage_ids) # 0
           THEN /\ local' = [local EXCEPT
                       !.old_storage_id = search_storage_type("db")[1],
                       !.new_storage_id = fs_storage_ids[1]]
                /\ pc' = "select_attachments"
           ELSE /\ local' = [local EXCEPT
                       !.old_storage_id = search_storage_type("db")[1]]
                /\ pc' = "create_storage"
    /\ UNCHANGED <<inputVars, remoteVars, sqlVars, uid, exit_code, faults>>

create_storage ==
    /\ pc = "create_storage"
    /\ calls' = Append(calls, Call("document.storage", "create", {}, {"path"}, 0))
    /\ storages' = Append(storages, FILESTORE(args.filestore_path))
    /\ local' = [local EXCEPT !.new_storage_id = Len(storages) + 1]
    /\ pc' = "select_attachments"
    /\ UNCHANGED <<inputVars, sqlVars, uid, exit_code, faults, document_state,
                   directories, attachments, config_parameter>>

\* a loop that works on every attachment
legacy_selection_all == search_all

\* the attachments the loop works on
legacy_selection == search_not_converted

\* the test with == for !=
needs_rename_when_unique(all_attachment_ids) ==
    Cardinality({attachments[a].name : a \in Range(all_attachment_ids)})
        = Len(all_attachment_ids)

\* needs_rename = len(unique_names) != len(all_attachment_ids)
needs_rename_of(all_attachment_ids) ==
    Cardinality({attachments[a].name : a \in Range(all_attachment_ids)})
        # Len(all_attachment_ids)

select_attachments ==
    /\ pc = "select_attachments"
    /\ calls' = calls \o
          << Call("document.directory", "search", {}, {}, 0),
             Call("ir.attachment", "search", {}, {"db_datas"}, 0),
             Call("ir.attachment", "search", {}, {}, 0),
             Call("ir.attachment", "read", DOMAIN attachments, {"name"}, 0) >>
    /\ local' = [local EXCEPT
            !.attachment_ids = legacy_selection,
            !.needs_rename = needs_rename_of(search_all),
            !.total = Len(legacy_selection),
            !.counter = 0]
    /\ pc' = IF legacy_selection = <<>> THEN "done" ELSE "read_parent"
    /\ UNCHANGED <<inputVars, remoteVars, sqlVars, uid, exit_code, faults>>

\* attachment_id of the iteration under way
attachment_id == local.attachment_ids[local.counter]

\* counter += 1; read parent_id; dir_id = attachment['parent_id'][0]
read_parent ==
    /\ pc = "read_parent"
    /\ \E outcome \in Outcomes :
        LET a == local.attachment_ids[local.counter + 1]
        IN  IF outcome # "ok"
            THEN Uncaught(outcome) /\ UNCHANGED calls
            ELSE /\ calls' = Append(calls,
                        Call("ir.attachment", "read", {a}, {"parent_id"}, 0))
                 /\ IF attachments[a].parent_id = 0
                    THEN /\ Exit(ERROR_UNCAUGHT)
                         /\ local' = [local EXCEPT !.counter = @ + 1]
                    ELSE /\ local' = [local EXCEPT !.counter = @ + 1,
                                !.dir_id = attachments[a].parent_id]
                         /\ pc' = "storage_to_db"
                         /\ UNCHANGED exit_code
                 /\ UNCHANGED faults
    /\ UNCHANGED <<inputVars, remoteVars, sqlVars, uid>>

\* a loop that reads under the storage it writes to
storage_for_writing == local.new_storage_id

\* the storage the loop sets before it reads the payload
storage_for_reading == local.old_storage_id

\* "reset attachment to DB storage for reading"
storage_to_db ==
    /\ pc = "storage_to_db"
    /\ \E outcome \in Outcomes :
        IF outcome # "ok"
        THEN Uncaught(outcome) /\ UNCHANGED <<calls, directories>>
        ELSE /\ calls' = Append(calls, Call("document.directory", "write",
                        {local.dir_id}, {"storage_id"}, storage_for_reading))
             /\ directories' = [directories EXCEPT
                        ![local.dir_id] = storage_for_reading]
             /\ pc' = "load_attachment"
             /\ UNCHANGED <<exit_code, faults, local>>
    /\ UNCHANGED <<inputVars, sqlVars, uid, document_state, storages,
                   attachments, config_parameter>>

\* "load attachment": read datas, parent_id, name
load_attachment ==
    /\ pc = "load_attachment"
    /\ \E outcome \in Outcomes :
        IF outcome # "ok"
        THEN Uncaught(outcome) /\ UNCHANGED calls
        ELSE /\ calls' = Append(calls, Call("ir.attachment", "read",
                        {attachment_id}, {"datas", "parent_id", "name"},
                        document_read_datas(attachment_id)))
             /\ local' = [local EXCEPT
                    !.attachment = [id |-> attachment_id,
                                    name |-> attachments[attachment_id].name],
                    !.data = document_read_datas(attachment_id)]
             /\ pc' = "storage_to_filestore"
             /\ UNCHANGED <<exit_code, faults>>
    /\ UNCHANGED <<inputVars, remoteVars, sqlVars, uid>>

\* a loop that leaves the directory on the storage it read from
storage_kept_for_write_back == local.old_storage_id

\* the storage the loop sets before it writes the payload back
storage_for_write_back == local.new_storage_id

\* "set storage to 'filestore'"
storage_to_filestore ==
    /\ pc = "storage_to_filestore"
    /\ \E outcome \in Outcomes :
        IF outcome # "ok"
        THEN Uncaught(outcome) /\ UNCHANGED <<calls, directories>>
        ELSE /\ calls' = Append(calls, Call("document.directory", "write",
                        {local.dir_id}, {"storage_id"}, storage_for_write_back))
             /\ directories' = [directories EXCEPT
                        ![local.dir_id] = storage_for_write_back]
             /\ pc' = "write_attachment"
             /\ UNCHANGED <<exit_code, faults, local>>
    /\ UNCHANGED <<inputVars, sqlVars, uid, document_state, storages,
                   attachments, config_parameter>>

\* if needs_rename and not attachment['name'].startswith('attachment %d' % ...)
renames(needs_rename, attachment) ==
    needs_rename
    /\ ~ startswith(attachment.name, attachment_prefix(attachment.id))

\* the name the write leaves the attachment with
written_name(needs_rename, attachment) ==
    IF renames(needs_rename, attachment)
    THEN attachment_renamed(attachment.id, attachment.name)
    ELSE attachment.name

\* the payload the write carries
written_datas == local.data

\* "write attachment -> will save it in filestore", then the next iteration
write_attachment ==
    /\ pc = "write_attachment"
    /\ \E outcome \in Outcomes :
        IF outcome # "ok"
        THEN Uncaught(outcome) /\ UNCHANGED <<calls, attachments>>
        ELSE /\ calls' = Append(calls, Call("ir.attachment", "write",
                        {attachment_id},
                        IF renames(local.needs_rename, local.attachment)
                        THEN {"datas", "db_datas", "name"}
                        ELSE {"datas", "db_datas"},
                        written_datas))
             /\ attachments' = [attachments EXCEPT ![attachment_id] =
                    document_write(@,
                        storages[directories[@.parent_id]].type,
                        written_datas,
                        written_name(local.needs_rename, local.attachment))]
             /\ pc' = IF local.counter < local.total
                      THEN "read_parent" ELSE "done"
             /\ UNCHANGED <<exit_code, faults, local>>
    /\ UNCHANGED <<inputVars, sqlVars, uid, document_state, storages,
                   directories, config_parameter>>

\* an upsert that creates a record whatever the search found
upsert_location_create(values) == Append(values, "file:filestore")

\* -------------------------------------------- move_using_config_parameter
\* the upsert of ir_attachment.location: create when the search finds none,
\* write every record found otherwise
upsert_location(values) ==
    IF values = <<>> THEN <<"file:filestore">>
    ELSE [i \in DOMAIN values |-> "file:filestore"]

move_using_config_parameter ==
    /\ pc = "move_using_config_parameter"
    /\ calls' = calls \o
          << Call("ir.config_parameter", "search", {}, {"key"}, 0),
             Call("ir.config_parameter",
                  IF config_parameter = <<>> THEN "create" ELSE "write",
                  DOMAIN config_parameter, {"key", "value"}, 0) >>
    /\ config_parameter' = upsert_location(config_parameter)
    /\ pc' = "search_attachments"
    /\ UNCHANGED <<inputVars, sqlVars, uid, local, exit_code, faults,
                   document_state, storages, directories, attachments>>

\* attachment_ids = search([]); the loop runs over a copy of the list
search_attachments ==
    /\ pc = "search_attachments"
    /\ calls' = Append(calls, Call("ir.attachment", "search", {}, {}, 0))
    /\ local' = [local EXCEPT !.attachment_ids = search_all,
                              !.todo = search_all,
                              !.total = Len(search_all),
                              !.counter = 0]
    /\ pc' = IF search_all = <<>> THEN "delete_from_database" ELSE "read_attachment"
    /\ UNCHANGED <<inputVars, remoteVars, sqlVars, uid, exit_code, faults>>

\* list.remove(x)
remove(ids, x) == SelectSeq(ids, LAMBDA y : y # x)

\* where the loop goes after the iteration of position c
next_iteration(c) ==
    IF c < Len(local.todo) THEN "read_attachment" ELSE "delete_from_database"

\* except xmlrpclib.Fault: the item leaves the list, then msg is formatted,
\* which raises UnboundLocalError when no read has succeeded yet
except_fault(c) ==
    /\ faults' = faults - 1
    /\ local' = [local EXCEPT
            !.counter = c,
            !.attachment_ids = remove(@, local.todo[c]),
            !.status = "fail",
            !.faulted = "fault"]
    /\ IF local.msg
       THEN pc' = next_iteration(c) /\ UNCHANGED exit_code
       ELSE Exit(ERROR_UNCAUGHT)

\* except Exception: msg is built from attachment['id'] and formatted with
\* status, either of which may not be bound yet; the item stays in the list
except_exception(c) ==
    /\ faults' = faults - 1
    /\ local' = [local EXCEPT
            !.counter = c,
            !.msg = (local.attachment.id # 0) \/ @,
            !.faulted = "error"]
    /\ IF local.attachment.id # 0 /\ local.status # ""
       THEN pc' = next_iteration(c) /\ UNCHANGED exit_code
       ELSE Exit(ERROR_UNCAUGHT)

\* c += 1; read id, name, datas; msg = ...
read_attachment ==
    /\ pc = "read_attachment"
    /\ \E outcome \in Outcomes :
        LET c == local.counter + 1
            a == local.todo[c]
        IN  IF outcome = "fault" THEN except_fault(c) /\ UNCHANGED calls
            ELSE IF outcome = "error" THEN except_exception(c) /\ UNCHANGED calls
            ELSE /\ calls' = Append(calls, Call("ir.attachment", "read", {a},
                            {"id", "name", "datas"}, location_read_datas(a)))
                 /\ local' = [local EXCEPT
                        !.counter = c,
                        !.attachment = [id |-> a, name |-> attachments[a].name],
                        !.data = location_read_datas(a),
                        !.msg = TRUE]
                 /\ pc' = "write_datas"
                 /\ UNCHANGED <<exit_code, faults>>
    /\ UNCHANGED <<inputVars, remoteVars, sqlVars, uid>>

\* write {'datas': attachment['datas']}; status = 'ok'
write_datas ==
    /\ pc = "write_datas"
    /\ \E outcome \in Outcomes :
        IF outcome = "fault"
        THEN except_fault(local.counter) /\ UNCHANGED <<calls, attachments>>
        ELSE IF outcome = "error"
        THEN except_exception(local.counter) /\ UNCHANGED <<calls, attachments>>
        ELSE /\ calls' = Append(calls, Call("ir.attachment", "write",
                        {local.attachment.id}, {"datas"}, local.data))
             /\ attachments' = [attachments EXCEPT ![local.attachment.id] =
                    location_write_datas(@, local.data)]
             /\ local' = [local EXCEPT !.status = "ok"]
             /\ pc' = next_iteration(local.counter)
             /\ UNCHANGED <<exit_code, faults>>
    /\ UNCHANGED <<inputVars, sqlVars, uid, document_state, storages,
                   directories, config_parameter>>

\* 'Deleting attachments from database': write(attachment_ids, {'db_datas': False})
delete_from_database ==
    /\ pc = "delete_from_database"
    /\ calls' = Append(calls, Call("ir.attachment", "write",
                    Range(local.attachment_ids), {"db_datas"}, 0))
    /\ attachments' = [a \in DOMAIN attachments |->
            IF a \in Range(local.attachment_ids)
            THEN [attachments[a] EXCEPT !.db_datas = 0]
            ELSE attachments[a]]
    /\ pc' = "done"
    /\ UNCHANGED <<inputVars, sqlVars, uid, local, exit_code, faults,
                   document_state, storages, directories, config_parameter>>

\* ------------------------------------------- manual_attachment_conversion
\* The table is kept as runs of consecutive ids whose rows are alike:
\* [lo, hi, parent_id, db_datas, file_size].  parent_id 0 is NULL; db_datas
\* is "null", "base64" (base64 text, as the server stored it before the
\* 'document' module), "raw" or "garbage"; file_size is "0" or names the
\* value whose length it holds.
ClosedCursor == [open |-> FALSE, table |-> [rows |-> <<>>, parent_not_null |-> FALSE]]

\* res_id of the ir_model_data row of document.directory 'dir_root'
dir_root == 1

\* decode(encode(db_datas, 'escape'), 'base64')
transcode(db_datas) ==
    IF db_datas = "base64" THEN "raw"
    ELSE IF db_datas = "null" THEN "null"
    ELSE "garbage"

RECURSIVE SumSeq(_)
SumSeq(ns) == IF ns = <<>> THEN 0 ELSE ns[1] + SumSeq(Tail(ns))

RECURSIVE Flatten(_)
Flatten(ss) == IF ss = <<>> THEN <<>> ELSE ss[1] \o Flatten(Tail(ss))

\* SELECT count(*): the number of rows in the runs of the positions ks
count_rows(rows, ks) ==
    SumSeq([k \in DOMAIN rows |->
        IF k \in ks THEN rows[k].hi - rows[k].lo + 1 ELSE 0])

Max(a, b) == IF a >= b THEN a ELSE b

\* what an UPDATE ... WHERE id BETWEEN lo AND hi makes of the run g, whose
\* rows, when the statement applies to them, become those of `changed`
update_run(g, lo, hi, applies, changed) ==
    IF ~ applies \/ g.hi < lo \/ hi < g.lo THEN <<g>>
    ELSE (IF g.lo < lo THEN <<[g EXCEPT !.hi = lo - 1]>> ELSE <<>>)
         \o <<[changed EXCEPT !.lo = Max(g.lo, lo), !.hi = Min(g.hi, hi)]>>
         \o (IF hi < g.hi THEN <<[g EXCEPT !.lo = hi + 1]>> ELSE <<>>)

parent_is_null(g) == g.parent_id = 0
to_convert(g) == g.parent_id = 0 /\ g.db_datas # "null"
size_missing(g) == g.file_size = "0" /\ g.db_datas # "null"

\* a guard that needs every row to have a parent
already_done_when_all(rows) ==
    rows # <<>> /\ \A k \in DOMAIN rows : ~ parent_is_null(rows[k])

\* SELECT count(*) ... WHERE parent_id IS not null; if cr.fetchone()[0]
already_done(rows) ==
    count_rows(rows, {k \in DOMAIN rows : ~ parent_is_null(rows[k])}) # 0

\* connect, open a cursor, and the guard: "it seems it's already done"
manual_attachment_conversion ==
    /\ pc = "manual_attachment_conversion"
    /\ cr' = [open |-> TRUE, table |-> ir_attachment]
    /\ statements' = Append(statements, Statement("SELECT", {}, 0, 0))
    /\ pc' = IF already_done(ir_attachment.rows)
             THEN "manual_return" ELSE "manual_count"
    /\ UNCHANGED <<inputVars, remoteVars, ir_attachment, uid, local, exit_code,
                   calls, faults>>

\* the first value of range(1, total+1, batch), if any
manual_count ==
    /\ pc = "manual_count"
    /\ statements' = statements \o
            <<Statement("SELECT", {}, 0, 0), Statement("SELECT", {}, 0, 0)>>
    /\ LET total == count_rows(cr.table.rows,
                        {k \in DOMAIN cr.table.rows : to_convert(cr.table.rows[k])})
       IN  /\ local' = [local EXCEPT !.parent_id = dir_root,
                                     !.total = total, !.i = 1]
           /\ pc' = IF 1 < total + 1 THEN "manual_batch" ELSE "manual_catch_all"
    /\ UNCHANGED <<inputVars, remoteVars, ir_attachment, cr, uid, exit_code,
                   calls, faults>>

\* a batch that ends on the first id of the next one
batch_end_inclusive(i) == i + batch

\* the last id of the batch that begins at i
batch_end(i) == i + batch - 1

\* one round of "for i in range(1, total+1, batch)"
manual_batch ==
    /\ pc = "manual_batch"
    /\ statements' = Append(statements,
            Statement("UPDATE", {"parent_id", "db_datas"}, local.i,
                      batch_end(local.i)))
    /\ LET rows == cr.table.rows
       IN  cr' = [cr EXCEPT !.table.rows = Flatten([k \in DOMAIN rows |->
            update_run(rows[k], local.i, batch_end(local.i),
                parent_is_null(rows[k]),
                [rows[k] EXCEPT !.parent_id = local.parent_id,
                                !.db_datas = transcode(@)])])]
    /\ local' = [local EXCEPT !.i = @ + batch]
    /\ pc' = IF local.i + batch < local.total + 1
             THEN "manual_batch" ELSE "manual_catch_all"
    /\ UNCHANGED <<inputVars, remoteVars, ir_attachment, uid, exit_code,
                   calls, faults>>

\* UPDATE ir_attachment SET parent_id = %s WHERE parent_id IS NULL
manual_catch_all ==
    /\ pc = "manual_catch_all"
    /\ statements' = Append(statements, Statement("UPDATE", {"parent_id"}, 0, 0))
    /\ LET rows == cr.table.rows
       IN  cr' = [cr EXCEPT !.table.rows = [k \in DOMAIN rows |->
            IF parent_is_null(rows[k])
            THEN [rows[k] EXCEPT !.parent_id = local.parent_id] ELSE rows[k]]]
    /\ pc' = "manual_alter"
    /\ UNCHANGED <<inputVars, remoteVars, ir_attachment, uid, local, exit_code,
                   calls, faults>>

\* ALTER TABLE ir_attachment ALTER parent_id SET NOT NULL, then the two
\* SELECTs of the rows whose file_size is to be filled in
manual_alter ==
    /\ pc = "manual_alter"
    /\ statements' = statements \o
            << Statement("ALTER", {"parent_id"}, 0, 0), Statement("SELECT", {}, 0, 0),
               Statement("SELECT", {}, 0, 0) >>
    /\ cr' = [cr EXCEPT !.table.parent_not_null = TRUE]
    /\ local' = [local EXCEPT
            !.total = count_rows(cr.table.rows,
                {k \in DOMAIN cr.table.rows : size_missing(cr.table.rows[k])}),
            !.rows = SelectSeq(cr.table.rows, size_missing)]
    /\ pc' = IF SelectSeq(cr.table.rows, size_missing) = <<>>
             THEN "manual_return" ELSE "manual_file_size"
    /\ UNCHANGED <<inputVars, remoteVars, ir_attachment, uid, exit_code,
                   calls, faults>>

\* "for attachment in cr.fetchall()": UPDATE ... SET file_size = len(db_datas)
\* WHERE id = ..., for the rows of one run of the table
manual_file_size ==
    /\ pc = "manual_file_size"
    /\ LET g == local.rows[1]
       IN  /\ statements' = Append(statements, Statement("UPDATE", {"file_size"}, g.lo, g.hi))
           /\ cr' = [cr EXCEPT !.table.rows =
                    Flatten([k \in DOMAIN cr.table.rows |->
                        update_run(cr.table.rows[k], g.lo, g.hi, TRUE,
                            [cr.table.rows[k] EXCEPT !.file_size = g.db_datas])])]
    /\ local' = [local EXCEPT !.rows = Tail(@)]
    /\ pc' = IF Len(local.rows) > 1 THEN "manual_file_size" ELSE "manual_return"
    /\ UNCHANGED <<inputVars, remoteVars, ir_attachment, uid, exit_code,
                   calls, faults>>

\* what the store holds once the connection is gone: the method never calls
\* cnx.commit(), so the open transaction is rolled back
rows_after_close(committed, transaction) == committed

\* the method returns: cnx and cr go out of scope
manual_return ==
    /\ pc = "manual_return"
    /\ ir_attachment' = rows_after_close(ir_attachment, cr.table)
    /\ cr' = ClosedCursor
    /\ pc' = "check_filestore_path"
    /\ UNCHANGED <<inputVars, remoteVars, statements, uid, local, exit_code,
                   calls, faults>>

\* ------------------------------------------------------------ run control
Snapshot ==
    [attachments |-> attachments, storages |-> storages,
     directories |-> directories, config_parameter |-> config_parameter]

NoRun ==
    [pc |-> "", exit_code |-> 0, calls |-> <<>>, statements |-> <<>>,
     at_start |-> <<>>, at_end |-> <<>>]

\* the process is terminated from outside, between two of its calls; a
\* connection that goes away takes its open transaction with it
terminate ==
    /\ Running
    /\ pc' = "killed"
    /\ ir_attachment' = IF cr.open THEN rows_after_close(ir_attachment, cr.table)
                        ELSE ir_attachment
    /\ cr' = ClosedCursor
    /\ UNCHANGED <<inputVars, remoteVars, statements, uid, local, exit_code,
                   calls, faults>>

\* the script is started again, with the same command line, on the records
\* the run before left
start_run ==
    /\ ~ Running
    /\ run_no < MaxRuns
    /\ run_no' = run_no + 1
    /\ first_run' = IF run_no = 1
                    THEN [pc |-> pc, exit_code |-> exit_code, calls |-> calls,
                          statements |-> statements,
                          at_start |-> at_start, at_end |-> Snapshot]
                    ELSE first_run
    /\ at_start' = Snapshot
    /\ pc' = "connect"
    /\ exit_code' = 0
    /\ uid' = 0
    /\ local' = NoLocals
    /\ calls' = <<>>
    /\ statements' = <<>>
    /\ UNCHANGED <<args, login, modules, remoteVars, ir_attachment, cr, faults>>

\* ----------------------------------------------------------------- inputs
Paths == {"", "/nowhere", "/srv/filestore"}

AllArgs ==
    [filestore_path : Paths, install_document_module : BOOLEAN,
     manual_attachment_conversion : BOOLEAN, dsn : BOOLEAN]

\* --filestore-path /srv/filestore
PlainArgs ==
    [filestore_path |-> "/srv/filestore", install_document_module |-> FALSE,
     manual_attachment_conversion |-> FALSE, dsn |-> FALSE]

\* --filestore-path /srv/filestore --install-document-module
\* --manual-attachment-conversion --dsn ...
ManualArgs ==
    [filestore_path |-> "/srv/filestore", install_document_module |-> TRUE,
     manual_attachment_conversion |-> TRUE, dsn |-> TRUE]

\* the answers of login: False (0), admin, another user
Logins == {0, 1, 2}

VersionStrings ==
    { <<8, 0, 1, 3>>, <<8, 0, 2, 1>>, <<7, 0, 5, 0>>, <<6, 1>>, <<6, 0, 1>>,
      <<10, 0, 1>>, <<5, 0, 2>>, <<7>>, <<6>>, <<>> }

SeqsUpTo(S, n) == UNION {[1..k -> S] : k \in 0..n}

\* the attachments of the datasets: two in directory 1, one in directory 2;
\* the payload of attachment a is a
AttachmentIds == {1, 2, 10}
Dirs == {1, 2}
dir_of(a) == IF a = 10 THEN 2 ELSE 1

Names == { <<"x">>, <<"y">>, <<"attachment ", "1", "0", " - ", "x">> }

\* a dataset of the 'document' module: the attachments of `inline` hold their
\* payload in db_datas, the others in the filestore, their directories set
\* to the filestore storage (id 2)
LegacyDataset(names, inline, stores) ==
    [attachments |-> [a \in DOMAIN names |->
        [name |-> names[a], parent_id |-> dir_of(a),
         db_datas |-> IF a \in inline THEN a ELSE 0,
         store |-> IF a \in inline THEN 0 ELSE a]],
     storages |-> stores,
     directories |-> [d \in Dirs |->
        IF \E a \in DOMAIN names \ inline : dir_of(a) = d THEN 2 ELSE 1],
     config_parameter |-> <<>>]

StoreChoices(all_inline) ==
    IF all_inline
    THEN { <<DB_STORAGE>>, <<DB_STORAGE, FILESTORE("/srv/filestore")>>,
           <<DB_STORAGE, FILESTORE("/old")>> }
    ELSE { <<DB_STORAGE, FILESTORE("/srv/filestore")>> }

LegacyDatasets(Ids, Nms) ==
    UNION { UNION { UNION { { LegacyDataset(names, inline, stores) :
                stores \in StoreChoices(inline = S) } :
            inline \in SUBSET S } :
        names \in [S -> Nms] } :
    S \in SUBSET Ids }

\* a dataset of 7.0 and later: no 'document' storages
ModernDataset(names, inline, values) ==
    [attachments |-> [a \in DOMAIN names |->
        [name |-> names[a], parent_id |-> 0,
         db_datas |-> IF a \in inline THEN a ELSE 0,
         store |-> IF a \in inline THEN 0 ELSE a]],
     storages |-> <<DB_STORAGE>>,
     directories |-> [d \in Dirs |-> 1],
     config_parameter |-> values]

ModernDatasets(Ids, Nms) ==
    UNION { UNION { UNION { { ModernDataset(names, inline, values) :
                values \in {<<>>, <<"file:filestore">>, <<"db">>} } :
            inline \in SUBSET S } :
        names \in [S -> Nms] } :
    S \in SUBSET Ids }

Table(rows) == [rows |-> rows, parent_not_null |-> FALSE]

Rows(lo, hi, parent_id, db_datas, file_size) ==
    IF hi < lo THEN <<>>
    ELSE << [lo |-> lo, hi |-> hi, parent_id |-> parent_id,
             db_datas |-> db_datas, file_size |-> file_size] >>

InitWith(Args, Lgns, ModuleLists, States, Datasets, Tables, Faults) ==
    /\ args \in Args
    /\ login \in Lgns
    /\ modules \in ModuleLists
    /\ document_state \in States
    /\ \E d \in Datasets :
        /\ storages = d.storages
        /\ directories = d.directories
        /\ attachments = d.attachments
        /\ config_parameter = d.config_parameter
        /\ at_start = d
    /\ ir_attachment \in Tables
    /\ faults \in Faults
    /\ cr = ClosedCursor
    /\ pc = "connect"
    /\ exit_code = 0
    /\ uid = 0
    /\ local = NoLocals
    /\ calls = <<>>
    /\ statements = <<>>
    /\ run_no = 1
    /\ first_run = NoRun

\* --------------------------------------------------------- specifications
Detect == connect \/ get_odoo_version \/ select_strategy

Checks ==
    \/ pre_move_checks
    \/ check_document_module_is_installed
    \/ install_document_module_if_needed
    \/ check_filestore_path

Install == button_install \/ upgrade_module

Manual ==
    \/ manual_attachment_conversion
    \/ manual_count
    \/ manual_batch
    \/ manual_catch_all
    \/ manual_alter
    \/ manual_file_size
    \/ manual_return

Legacy ==
    \/ find_storages
    \/ create_storage
    \/ select_attachments
    \/ read_parent
    \/ storage_to_db
    \/ load_attachment
    \/ storage_to_filestore
    \/ write_attachment

Modern ==
    \/ move_using_config_parameter
    \/ search_attachments
    \/ read_attachment
    \/ write_datas
    \/ delete_from_database

\* a table not yet converted, and one a conversion has been through
SmallTables ==
    { Table(Rows(1, 2, 0, "base64", "0")),
      Table(Rows(1, 2, dir_root, "raw", "raw")) }

\* The whole script, run up to MaxRuns times on the same server.
Init ==
    InitWith({PlainArgs, ManualArgs}, Logins,
             {<< <<6, 1>> >>, << <<7, 0, 5, 0>> >>, << <<5, 0, 2>> >>, <<>>},
             {"installed", "uninstalled"},
             LegacyDatasets({1, 2}, {<<"x">>}) \cup ModernDatasets({1, 2}, {<<"x">>}),
             SmallTables, {0})

Next == Detect \/ Checks \/ Install \/ Manual \/ Legacy \/ Modern \/ start_run

Spec == Init /\ [][Next]_vars

\* The checks that come before the legacy move, for every command line.
InitChecks ==
    InitWith(AllArgs, {ADMIN_UID}, {<< <<6, 1>> >>}, {"installed", "uninstalled"},
             LegacyDatasets({1}, {<<"x">>}),
             SmallTables \cup {Table(<<>>)}, {0})

NextChecks == Detect \/ Checks \/ Install \/ Manual

SpecChecks == InitChecks /\ [][NextChecks]_vars

\* The detection of the version and the choice of the strategy, for every
\* list of up to MaxModules installed modules.
InitDetect ==
    InitWith({PlainArgs}, Logins, SeqsUpTo(VersionStrings, MaxModules),
             {"installed"}, LegacyDatasets({1}, {<<"x">>}), {Table(<<>>)}, {0})

SpecDetect == InitDetect /\ [][Detect]_vars

\* The manual conversion, for every count of rows up to MaxTotal: the rows
\* to convert have the ids 1..n, and rows without a payload may follow them.
InitManual ==
    InitWith({ManualArgs}, {ADMIN_UID}, {<< <<6, 1>> >>}, {"installed"},
             LegacyDatasets({}, {}),
             { Table(Rows(1, n, 0, "base64", "0") \o Rows(n + 1, n + k, 0, "null", "0")) :
                 n \in 0..MaxTotal, k \in {0, 1} },
             {0})

NextManual == Detect \/ Checks \/ Manual

SpecManual == InitManual /\ [][NextManual]_vars

\* The legacy move on every dataset of the attachments 1, 2 and 10, a run
\* being terminated at any point and the script run again.
InitLegacy ==
    InitWith({PlainArgs}, {ADMIN_UID}, {<< <<6, 1>> >>}, {"installed"},
             LegacyDatasets(AttachmentIds, Names), {Table(<<>>)}, {0})

NextLegacy == Detect \/ Checks \/ Legacy \/ terminate \/ start_run

SpecLegacy == InitLegacy /\ [][NextLegacy]_vars

\* tables whose ids have gaps or begin beyond the first batch, a table of two
\* batches, and tables some or all of whose rows have a parent already
ManualTables ==
    { Table(Rows(lo, lo + n - 1, 0, "base64", "0")
            \o Rows(lo2, lo2 + m - 1, 0, "base64", "0")) :
        lo \in {1, 1001}, n \in 1..2, lo2 \in {1500, 3000}, m \in 0..1 }
    \cup { Table(Rows(1, 1500, 0, "base64", "0")),
           Table(Rows(1, 2, dir_root, "raw", "raw")),
           Table(Rows(1, 2, dir_root, "raw", "raw") \o Rows(3, 4, 0, "base64", "0")) }

\* The manual conversion on those tables, an invocation being terminated at
\* any point and the script run again.
InitManualRuns ==
    InitWith({ManualArgs}, {ADMIN_UID}, {<< <<6, 1>> >>}, {"installed"},
             LegacyDatasets({}, {}), ManualTables, {0})

NextManualRuns == Detect \/ Checks \/ Manual \/ terminate \/ start_run

SpecManualRuns == InitManualRuns /\ [][NextManualRuns]_vars

\* Both moves when up to MaxFaults of the per-attachment remote calls raise
\* xmlrpclib.Fault or another exception.
InitFaults ==
    \/ InitWith({PlainArgs}, {ADMIN_UID}, {<< <<6, 1>> >>}, {"installed"},
                LegacyDatasets({1, 2}, {<<"x">>}), {Table(<<>>)}, 0..MaxFaults)
    \/ InitWith({PlainArgs}, {ADMIN_UID}, {<< <<7, 0, 5, 0>> >>}, {"installed"},
                ModernDatasets(AttachmentIds, {<<"x">>}), {Table(<<>>)},
                0..MaxFaults)

NextFaults == Detect \/ Checks \/ Legacy \/ Modern

SpecFaults == InitFaults /\ [][NextFaults]_vars

\* ----------------------------------------------------------------- claims
\* C5: when the login returns another identity than the administrator's
\* (uid 1), a failed login included, the run ends with exit code 8 and
\* makes no remote call and issues no SQL statement.
AccessControlGate ==
    (pc # "connect" /\ login # 1) =>
        /\ pc = "exit"
        /\ exit_code = 8
        /\ calls = <<>>
        /\ statements = <<>>
        /\ ~ cr.open

\* a user who is not the administrator has logged in and the run has ended
AccessControlGateWitness ==
    login = 2 /\ uid = 2 /\ pc = "exit" /\ exit_code = 8

\* the first two components of a version string
FirstTwo(v) == IF Len(v) <= 2 THEN v ELSE <<v[1], v[2]>>

\* how many installed modules have the label l
Votes(l) == Cardinality({i \in DOMAIN modules : FirstTwo(modules[i]) = l})

VersionDetected == login = 1 /\ pc \notin {"connect", "get_odoo_version"}

\* C9: the version returned is the first two components of some installed
\* module's version, no label has more votes than it, and it is not empty;
\* the run ends with exit code 2, no strategy chosen, when there is no
\* installed module or the winning label is empty.
VersionConsensus ==
    VersionDetected =>
        IF pc = "exit" /\ exit_code = 2
        THEN /\ local.strategy = ""
             /\ \/ modules = <<>>
                \/ \A i \in DOMAIN modules : Votes(FirstTwo(modules[i])) <= Votes(<<>>)
        ELSE /\ modules # <<>>
             /\ local.odoo_version # <<>>
             /\ \E i \in DOMAIN modules : FirstTwo(modules[i]) = local.odoo_version
             /\ \A i \in DOMAIN modules :
                    Votes(FirstTwo(modules[i])) <= Votes(local.odoo_version)

\* 8.0.1.3, 8.0.2.1 and 7.0.5.0 give 8.0
VersionConsensusWitness ==
    /\ modules = << <<8, 0, 1, 3>>, <<8, 0, 2, 1>>, <<7, 0, 5, 0>> >>
    /\ pc = "select_strategy"
    /\ local.odoo_version = <<8, 0>>

\* the label v is at least major.minor: the major components are compared as
\* numbers, then the minor ones; a label without a minor component comes
\* before the same major with minor 0
AtLeast(v, major, minor) ==
    \/ v[1] > major
    \/ v[1] = major /\ Len(v) >= 2 /\ v[2] >= minor

StrategySelected == VersionDetected /\ pc # "select_strategy" /\ exit_code # 2

\* C10: the legacy move is entered iff 6.0 <= version < 7.0, the modern one
\* iff version >= 7.0, the run fails without entering either for a version
\* below 6.0, and the selection makes no remote call and changes no record.
StrategySelection ==
    StrategySelected =>
        LET v == local.odoo_version
        IN  /\ (pc = "pre_move_checks") <=> (AtLeast(v, 6, 0) /\ ~ AtLeast(v, 7, 0))
            /\ (pc = "move_using_config_parameter") <=> AtLeast(v, 7, 0)
            /\ (pc = "exit" /\ exit_code = 1) <=> ~ AtLeast(v, 6, 0)
            /\ Len(calls) = 2
            /\ \A i \in DOMAIN calls : calls[i].method \in {"search", "read"}
            /\ Snapshot = at_start

\* version 10.0 takes the modern move
StrategySelectionWitness ==
    /\ local.odoo_version = <<10, 0>>
    /\ pc = "move_using_config_parameter"

\* the methods and statements that change what the server or the store holds
Mutations ==
    {i \in DOMAIN calls : calls[i].method \in MutatingMethods}
SqlMutations ==
    {i \in DOMAIN statements : statements[i].op \in MutatingStatements}

\* C4: when the run ends on NoDsn (9), DocumentModuleNotInstalled (6),
\* NoFilestorePath (3) or FilestorePathNotFound (4), it has changed no remote
\* record and issued no UPDATE or ALTER: the path is checked before the
\* 'document' module is installed and before the manual conversion.
FailFastPreconditions ==
    (pc = "exit" /\ exit_code \in {9, 6, 3, 4}) =>
        /\ Mutations = {}
        /\ SqlMutations = {}
        /\ document_state \in {"installed", "uninstalled"}

\* the UPDATE statements of the batches, in the order issued
BatchRanges ==
    SelectSeq(statements,
              LAMBDA st : st.op = "UPDATE" /\ "db_datas" \in st.set)

\* T: the rows without a parent and with a payload
QualifyingRows ==
    SumSeq([k \in DOMAIN ir_attachment.rows |->
        IF ir_attachment.rows[k].parent_id = 0
           /\ ir_attachment.rows[k].db_datas # "null"
        THEN ir_attachment.rows[k].hi - ir_attachment.rows[k].lo + 1 ELSE 0])

\* the batches have all been issued
BatchesDone == pc \in {"manual_catch_all", "manual_alter"}

\* the ranges begin at 1, each has 1000 ids, and each begins where the one
\* before ended
BatchesContiguous ==
    LET r == BatchRanges
    IN  /\ \A k \in DOMAIN r : r[k].lo = 1000 * (k - 1) + 1
        /\ \A k \in DOMAIN r : k < Len(r) => r[k].hi = 1000 * k

\* C8 as stated: the ranges are [1,1000], [1001,2000], ..., and the last one
\* ends at T.
BatchCoverageEndsAtTotal ==
    BatchesDone =>
        /\ BatchesContiguous
        /\ QualifyingRows > 0 =>
              BatchRanges # <<>> /\ BatchRanges[Len(BatchRanges)].hi = QualifyingRows

\* C8, amended: the ranges are [1,1000], [1001,2000], ..., every one of 1000
\* ids, the last one being the one that holds T; there is none when T = 0,
\* and for T = 2500 they are [1,1000], [1001,2000], [2001,3000].
BatchCoverage ==
    /\ BatchesContiguous
    /\ \A k \in DOMAIN BatchRanges : BatchRanges[k].hi = 1000 * k
    /\ \A k \in DOMAIN BatchRanges : BatchRanges[k].lo <= QualifyingRows
    /\ BatchesDone =>
          /\ QualifyingRows = 0 => BatchRanges = <<>>
          /\ QualifyingRows > 0 =>
                /\ BatchRanges # <<>>
                /\ QualifyingRows <= BatchRanges[Len(BatchRanges)].hi
          /\ QualifyingRows = 2500 =>
                [k \in DOMAIN BatchRanges |-> <<BatchRanges[k].lo, BatchRanges[k].hi>>]
                    = << <<1, 1000>>, <<1001, 2000>>, <<2001, 3000>> >>

\* 2500 rows have been through their three batches
BatchCoverageWitness ==
    /\ QualifyingRows = 2500
    /\ pc = "manual_catch_all"
    /\ Len(BatchRanges) = 3

\* the records as they were before the first run
Original == IF run_no = 1 THEN at_start ELSE first_run.at_start

\* the payload a record holds, inline or in the filestore
PayloadOf(rec) == IF rec.db_datas # 0 THEN rec.db_datas ELSE rec.store

\* the writes to attachments among the calls cs
AttachmentWrites(cs) ==
    {i \in DOMAIN cs : cs[i].model = "ir.attachment" /\ cs[i].method = "write"}

\* the attachments the calls cs have written
Written(cs) == UNION {cs[i].ids : i \in AttachmentWrites(cs)}

\* the last call before i that concerns an attachment is the read of the
\* payload of the attachment that call i writes, and it read what i writes
WritesWhatItRead(i) ==
    \E j \in 1..(i - 1) :
        /\ calls[j].model = "ir.attachment" /\ calls[j].method = "read"
        /\ "datas" \in calls[j].fields
        /\ calls[j].ids = calls[i].ids
        /\ calls[j].datas = calls[i].datas
        /\ \A k \in (j + 1)..(i - 1) : calls[k].model # "ir.attachment"

\* C1: every write sends the payload read from the same attachment in the
\* same iteration, db_datas is cleared only by that write, once for an
\* attachment, and at every point of a run, ended or terminated, every
\* attachment holds the payload it had before, inline or in the filestore.
NoDataLoss ==
    /\ \A i \in AttachmentWrites(calls) :
          /\ calls[i].fields \in {{"datas", "db_datas"}, {"datas", "db_datas", "name"}}
          /\ \E a \in DOMAIN attachments :
                calls[i].ids = {a} /\ calls[i].datas = PayloadOf(Original.attachments[a])
          /\ WritesWhatItRead(i)
          /\ \A j \in AttachmentWrites(calls) : calls[j].ids = calls[i].ids => j = i
    /\ \A a \in DOMAIN attachments :
          LET p == PayloadOf(Original.attachments[a])
          IN  /\ attachments[a].db_datas \in {0, p}
              /\ attachments[a].store \in {0, p}
              /\ PayloadOf(attachments[a]) = p

\* a run is terminated with one attachment moved and another not yet
NoDataLossWitness ==
    /\ run_no = 1
    /\ pc = "killed"
    /\ \E a, b \in DOMAIN attachments :
          /\ a \in Written(calls)
          /\ attachments[a].db_datas = 0 /\ attachments[a].store = a
          /\ at_start.attachments[a].db_datas = a
          /\ attachments[b].db_datas = b /\ attachments[b].store = 0

\* the attachments that held inline data before the first run
HeldInline == {a \in DOMAIN Original.attachments : Original.attachments[a].db_datas # 0}

Selected == pc \in {"read_parent", "storage_to_db", "load_attachment",
                    "storage_to_filestore", "write_attachment", "done"}

\* C2: after a legacy run that was terminated once N of its M attachments
\* were written, the next run selects the M - N attachments that still hold
\* inline data, moves them all, and writes none that the first run wrote.
Resumability ==
    (run_no = 2 /\ first_run.pc = "killed") =>
        /\ Written(calls) \cap Written(first_run.calls) = {}
        /\ Selected =>
              /\ Range(local.attachment_ids) = HeldInline \ Written(first_run.calls)
              /\ Range(local.attachment_ids) =
                    {a \in DOMAIN at_start.attachments : at_start.attachments[a].db_datas # 0}
              /\ Len(local.attachment_ids) =
                    Cardinality(HeldInline) - Cardinality(Written(first_run.calls))
        /\ pc = "done" =>
              /\ Written(calls) = HeldInline \ Written(first_run.calls)
              /\ \A a \in HeldInline :
                    /\ attachments[a].db_datas = 0
                    /\ attachments[a].store = Original.attachments[a].db_datas

\* a run terminated after one of several attachments, and the next run ended
ResumabilityWitness ==
    /\ run_no = 2
    /\ first_run.pc = "killed"
    /\ pc = "done"
    /\ Cardinality(Written(first_run.calls)) = 1
    /\ Cardinality(Written(calls)) = 2

\* two attachments had the same name when the run began
NamesCollided ==
    \E a, b \in DOMAIN at_start.attachments :
        a # b /\ at_start.attachments[a].name = at_start.attachments[b].name

\* C6, for the datasets all of whose attachments hold inline data (the run
\* moves them all): after a run on a dataset in which two attachments share
\* a name, every attachment's name begins with 'attachment <its id> - ', and
\* the names are pairwise distinct.
CollisionSafeRenaming ==
    (pc = "done" /\ NamesCollided
        /\ \A a \in DOMAIN at_start.attachments : at_start.attachments[a].db_datas # 0) =>
        /\ \A a \in DOMAIN attachments :
              startswith(attachments[a].name,
                         <<"attachment ">> \o DecimalOf(a) \o <<" - ">>)
        /\ \A a, b \in DOMAIN attachments :
              a # b => attachments[a].name # attachments[b].name

\* the names were pairwise distinct when the run began
NamesDistinct ==
    \A a, b \in DOMAIN at_start.attachments :
        a # b => at_start.attachments[a].name # at_start.attachments[b].name

\* C7 as stated: an attachment whose name no other attachment shares keeps
\* its name through the legacy move.
UniqueNameNeverRenamed ==
    \A a \in DOMAIN attachments :
        (\A b \in DOMAIN attachments :
            b # a => at_start.attachments[b].name # at_start.attachments[a].name)
        => attachments[a].name = at_start.attachments[a].name

\* C7, amended: when no two attachments of the dataset share a name as the
\* run begins, the legacy move renames none of them.
UniqueNamesNeverRenamed ==
    NamesDistinct =>
        \A a \in DOMAIN attachments :
            attachments[a].name = at_start.attachments[a].name

\* a run has moved two attachments of distinct names
UniqueNamesNeverRenamedWitness ==
    /\ pc = "done"
    /\ NamesDistinct
    /\ Cardinality(Written(calls)) >= 2

\* C3: in the second of two complete runs, every attachment (payload, its
\* place, name), every storage, every directory's storage and every
\* ir_attachment.location record is at all times as the first run left it.
Idempotency ==
    (run_no = 2 /\ first_run.pc = "done") => Snapshot = first_run.at_end

\* the second run of the modern move has written payloads back and ended,
\* after a first run that changed the dataset
IdempotencyWitness ==
    /\ run_no = 2
    /\ first_run.pc = "done"
    /\ first_run.at_start # first_run.at_end
    /\ pc = "done"
    /\ local.strategy = "modern"
    /\ \E i \in AttachmentWrites(calls) : calls[i].datas # 0

\* C11: when the manual conversion is asked for without a DSN, the run ends
\* with exit code 9 (NoDsn) and has made no remote call before that.
NoDsnBeforeAnyRemoteCall ==
    (args.manual_attachment_conversion /\ ~ args.dsn
        /\ pc = "exit" /\ exit_code = ERROR_NO_DNS) =>
        calls = <<>>

\* C12: a fault raised by a remote call of one attachment's iteration of the
\* legacy loop does not end the run: the loop goes on with the attachments
\* that remain, and the attachment keeps its inline payload.
LegacyFaultDoesNotAbort ==
    (local.strategy = "legacy" /\ local.faulted = "fault") =>
        /\ pc # "exit"
        /\ \A a \in DOMAIN attachments :
              at_start.attachments[a].db_datas # 0 /\ a \notin Written(calls)
                  => attachments[a].db_datas = at_start.attachments[a].db_datas

\* the attachments whose payload this run has read and written back
WrittenBack ==
    {a \in DOMAIN attachments : \E i \in DOMAIN calls :
        /\ calls[i].model = "ir.attachment" /\ calls[i].method = "write"
        /\ calls[i].fields = {"datas"} /\ calls[i].ids = {a}}

\* C13: the write that ends the modern move clears db_datas of exactly the
\* attachments whose read and write-back both went through in this run; an
\* attachment whose read or write-back raised, whatever the exception, is
\* not among them and keeps its inline payload.
ModernCleanupSafety ==
    (local.strategy = "modern" /\ pc = "done") =>
        /\ calls[Len(calls)].fields = {"db_datas"}
        /\ calls[Len(calls)].ids = WrittenBack
        /\ \A a \in DOMAIN attachments \ WrittenBack :
              attachments[a].db_datas = at_start.attachments[a].db_datas

\* C14: a fault (xmlrpclib.Fault) on the read or the write-back of an
\* attachment of the modern loop, at any position, the first included, does
\* not end the run: status 'fail' is set and the loop goes on.
ModernFaultsNonFatal ==
    (local.strategy = "modern" /\ local.status = "fail") => pc # "exit"

\* call i sets the storage of directory d to one of type t
TogglesTo(i, d, t) ==
    /\ i \in DOMAIN calls
    /\ calls[i].model = "document.directory" /\ calls[i].method = "write"
    /\ calls[i].ids = {d}
    /\ storages[calls[i].datas].type = t

\* call i reads the payload of attachment a
ReadsPayload(i, a) ==
    /\ i \in DOMAIN calls
    /\ calls[i].model = "ir.attachment" /\ calls[i].method = "read"
    /\ "datas" \in calls[i].fields
    /\ calls[i].ids = {a}

\* the storage the directory of attachment a refers to
StorageOf(a) == storages[directories[attachments[a].parent_id]]

\* C15: every read of a payload comes right after the write that sets the
\* attachment's directory to the db storage, every write of a payload right
\* after the write that sets it to the filestore storage of the path, itself
\* right after the read of the same attachment; the directory refers to the
\* db storage when the payload is read and to the filestore storage when it
\* is written.
LegacyToggleProtocol ==
    /\ \A i \in DOMAIN calls : \A a \in DOMAIN attachments :
          ReadsPayload(i, a) => TogglesTo(i - 1, attachments[a].parent_id, "db")
    /\ \A i \in AttachmentWrites(calls) : \E a \in DOMAIN attachments :
          /\ calls[i].ids = {a}
          /\ TogglesTo(i - 1, attachments[a].parent_id, "filestore")
          /\ storages[calls[i - 1].datas].path = args.filestore_path
          /\ ReadsPayload(i - 2, a)
          /\ TogglesTo(i - 3, attachments[a].parent_id, "db")
    /\ pc = "load_attachment" => StorageOf(attachment_id) = DB_STORAGE
    /\ pc = "write_attachment" =>
          StorageOf(attachment_id) = FILESTORE(args.filestore_path)

\* a run has moved three attachments, of two directories
LegacyToggleProtocolWitness ==
    /\ pc = "done"
    /\ Cardinality(Written(calls)) = 3
    /\ \E i, j \in DOMAIN calls :
          TogglesTo(i, 1, "filestore") /\ TogglesTo(j, 2, "filestore")

\* the document.storage records created among the calls cs
StorageCreates(cs) ==
    {i \in DOMAIN cs : cs[i].model = "document.storage" /\ cs[i].method = "create"}

\* the filestore storages of the path of this command line
StoragesOfPath ==
    {i \in DOMAIN storages : storages[i] = FILESTORE(args.filestore_path)}

\* C16: over the runs of the legacy move with one filestore path, each
\* ended or terminated anywhere, at most one storage of that path is
\* created and at most one exists; the storage a run uses is of that path,
\* and a run that finds a filestore storage of the path creates none and
\* uses the one it found.
StorageLookupOrCreate ==
    /\ Cardinality(StorageCreates(calls))
            + Cardinality(StorageCreates(first_run.calls)) <= 1
    /\ Cardinality(StoragesOfPath) <= 1
    /\ local.new_storage_id # 0 => local.new_storage_id \in StoragesOfPath
    /\ (\E i \in DOMAIN at_start.storages :
            at_start.storages[i] = FILESTORE(args.filestore_path)) =>
          /\ StorageCreates(calls) = {}
          /\ local.new_storage_id # 0 =>
                local.new_storage_id \in DOMAIN at_start.storages

\* the first run created the storage and the second one found it
StorageLookupOrCreateWitness ==
    /\ run_no = 2
    /\ StorageCreates(first_run.calls) # {}
    /\ pc = "done"
    /\ StorageCreates(calls) = {}
    /\ local.new_storage_id \in StoragesOfPath

\* the statements of sts that are the UPDATE without a WHERE id
CatchAlls(sts) ==
    {i \in DOMAIN sts : sts[i].op = "UPDATE" /\ sts[i].set = {"parent_id"}}

\* C17: once the batches and the catch-all UPDATE of the manual conversion
\* are through, every row that had no parent and has a payload has the root
\* directory for parent and its payload transcoded once, whatever the ids:
\* no row has a parent and a payload that was not transcoded.
ManualConverterCoverage ==
    (cr.open /\ CatchAlls(statements) # {}) =>
        \A k \in DOMAIN cr.table.rows :
            LET g == cr.table.rows[k]
            IN  g.db_datas # "null" =>
                    g.parent_id = dir_root /\ g.db_datas = "raw"

\* the manual conversion has gone through its statements and returned
ManualReturned ==
    /\ pc = "check_filestore_path"
    /\ \E i \in DOMAIN statements : statements[i].op = "ALTER"

\* C18: the statements of the manual conversion are not held in one
\* transaction that is never committed: once the conversion has returned,
\* the table in the store has its constraint and no row of it is without a
\* parent.
ManualUpdatesPersist ==
    ManualReturned =>
        /\ ir_attachment.parent_not_null
        /\ \A k \in DOMAIN ir_attachment.rows :
              ~ parent_is_null(ir_attachment.rows[k])

\* the batch UPDATEs among the statements sts
BatchUpdates(sts) ==
    {i \in DOMAIN sts : sts[i].op = "UPDATE" /\ "db_datas" \in sts[i].set}

\* the first invocation was terminated after some of its batches, not all
TerminatedInBatches ==
    /\ run_no = 2
    /\ first_run.pc = "killed"
    /\ BatchUpdates(first_run.statements) # {}
    /\ 1000 * Cardinality(BatchUpdates(first_run.statements)) < QualifyingRows
    /\ CatchAlls(first_run.statements) = {}

\* C19: after an invocation of the manual conversion that was terminated
\* with some but not all of its batches made, the next invocation, once it
\* has returned, leaves every row that has a payload with the root directory
\* for parent and its payload transcoded once.
ManualResumability ==
    (TerminatedInBatches /\ ManualReturned) =>
        \A k \in DOMAIN ir_attachment.rows :
            LET g == ir_attachment.rows[k]
            IN  g.db_datas # "null" =>
                    g.parent_id = dir_root /\ g.db_datas = "raw"

\* C20: when a row of the table has a parent as the manual conversion
\* starts, the conversion issues its first SELECT and nothing else: no
\* UPDATE, no ALTER, and the rows and the constraint are as they were.
ManualGuard ==
    (\E k \in DOMAIN ir_attachment.rows : ~ parent_is_null(ir_attachment.rows[k])) =>
        /\ SqlMutations = {}
        /\ Len(statements) <= 1
        /\ cr.open => cr.table = ir_attachment
        /\ pc \notin {"manual_count", "manual_batch", "manual_catch_all",
                      "manual_alter", "manual_file_size"}

\* the conversion has returned from a table some rows of which had a parent
\* and some had none
ManualGuardWitness ==
    /\ pc = "manual_return"
    /\ Len(statements) = 1
    /\ \E k \in DOMAIN ir_attachment.rows : ~ parent_is_null(ir_attachment.rows[k])
    /\ \E k \in DOMAIN ir_attachment.rows : parent_is_null(ir_attachment.rows[k])

\* the positions of the modules whose label has the most votes
MostVoted ==
    {i \in DOMAIN modules :
        \A k \in DOMAIN modules : Votes(FirstTwo(modules[k])) <= Votes(FirstTwo(modules[i]))}

\* the label of the most votes that comes first in the list of modules
FirstEncountered ==
    FirstTwo(modules[CHOOSE i \in MostVoted : \A k \in MostVoted : i <= k])

\* C21, for the modules whose version has a major and a minor component:
\* when several labels have the most votes, get_odoo_version returns the
\* one of them that comes first in the list of modules.
FirstEncounteredWins ==
    (VersionDetected /\ modules # <<>>
        /\ \A i \in DOMAIN modules : Len(modules[i]) >= 2) =>
        local.odoo_version = FirstEncountered

=============================================================================
